---- MODULE Spec2Model ----
(***************************************************************************)
(* A model of dispatch: the .http document parser of the frontend          *)
(* (frontend/src/lib/parser.ts), the editor glue that calls it             *)
(* (App.svelte) and the request executor of the backend (app.go).          *)
(*                                                                         *)
(* Text is modelled character by character: a string is a sequence of      *)
(* one-character strings, a document is such a sequence holding "\n".      *)
(* Line indices are 0-based as in the source; At(lines, i) reads lines[i]. *)
(***************************************************************************)
EXTENDS Integers, Sequences, FiniteSets, TLC

VARIABLES
    editorContent,  \* App.svelte `editorContent`: the document text
    blocks,         \* App.svelte `blocks`: parseHttpFile(editorContent)
    cursorLine,     \* App.svelte `cursorLine`
    found,          \* what handleKeydown got from findRequestAtLine:
                    \* <<"none">> before any Ctrl+Enter, else <<"ran", r>>
    calls,          \* the Execute calls: where each stands and what it holds
    now,            \* the monotonic clock time.Now / time.Since read, in ms
    app,            \* the App struct: ctx and the shared http.Client
    loading,        \* App.svelte `loading`
    responses,      \* App.svelte `responses`: the response log, newest first
    nextId,         \* App.svelte `nextId`
    awaiting,       \* the runRequest calls suspended at `await Execute(...)`
    fileLoaded,     \* App.svelte `fileLoaded`
    saveTimer,      \* App.svelte `saveTimer`: <<>> or the one pending timer
    saved,          \* the calls of SaveFile made so far, in order
    version,        \* app.go `version`, the version the build was given
    info,           \* what CheckForUpdate returned: <<>> before it returned
    updateInfo,     \* App.svelte `updateInfo`: <<>> for null
    str,            \* the text handed to highlightJson
    html            \* what highlightJson returned for str, piece by piece

editorVars == <<editorContent, blocks, cursorLine, found>>
execVars == <<calls, now, app>>
uiVars == <<loading, responses, nextId, awaiting>>
saveVars == <<fileLoaded, saveTimer, saved>>
updateVars == <<version, info, updateInfo>>
hlVars == <<str, html>>
sideVars == <<saveVars, updateVars, hlVars>>
vars == <<editorContent, blocks, cursorLine, found, calls, now, app,
          loading, responses, nextId, awaiting, fileLoaded, saveTimer, saved,
          version, info, updateInfo, str, html>>

----------------------------------------------------------------------------
(* Bounds of the model *)

\* the longest document, in lines
MaxLines == 4

\* the number of Execute calls
MaxCalls == 1

\* the last tick of the clock
MaxTime == 2

----------------------------------------------------------------------------
(* JavaScript string primitives *)

\* the characters String.prototype.trim strips
IsSpace(c) == c \in {" ", "\t", "\n", "\r", "\f"}

\* \w of a JavaScript regular expression
WordChars ==
    {"a","b","c","d","e","f","g","h","i","j","k","l","m",
     "n","o","p","q","r","s","t","u","v","w","x","y","z",
     "A","B","C","D","E","F","G","H","I","J","K","L","M",
     "N","O","P","Q","R","S","T","U","V","W","X","Y","Z",
     "0","1","2","3","4","5","6","7","8","9","_"}

\* lines[i] of a 0-based array
At(lines, i) == lines[i + 1]

RECURSIVE trimStart(_)
trimStart(s) ==
    IF s # <<>> /\ IsSpace(Head(s)) THEN trimStart(Tail(s)) ELSE s

RECURSIVE trimEnd(_)
trimEnd(s) ==
    IF s # <<>> /\ IsSpace(s[Len(s)]) THEN trimEnd(SubSeq(s, 1, Len(s) - 1))
    ELSE s

trim(s) == trimEnd(trimStart(s))

startsWith(s, p) == Len(s) >= Len(p) /\ SubSeq(s, 1, Len(p)) = p

\* s.substring(from), from 0-based
substring(s, from) == SubSeq(s, from + 1, Len(s))

\* s.substring(from, to), 0-based, to exclusive
substring2(s, from, to) == SubSeq(s, from + 1, to)

\* s.indexOf(c): the 0-based index of the first c, or -1
indexOf(s, c) ==
    IF \E k \in 1..Len(s) : s[k] = c
    THEN (CHOOSE k \in 1..Len(s) : s[k] = c /\ \A j \in 1..(k - 1) : s[j] # c) - 1
    ELSE -1

\* content.split('\n'): always at least one line
RECURSIVE split(_)
split(content) ==
    LET nl == indexOf(content, "\n") IN
    IF nl < 0 THEN <<content>>
    ELSE <<substring2(content, 0, nl)>> \o split(substring(content, nl + 1))

\* lines.join('\n')
RECURSIVE join(_)
join(lines) ==
    IF lines = <<>> THEN <<>>
    ELSE IF Len(lines) = 1 THEN lines[1]
    ELSE lines[1] \o <<"\n">> \o join(Tail(lines))

----------------------------------------------------------------------------
(* parser.ts *)

HTTP_METHODS ==
    << <<"G","E","T">>, <<"P","O","S","T">>, <<"P","U","T">>,
       <<"P","A","T","C","H">>, <<"D","E","L","E","T","E">>,
       <<"H","E","A","D">>, <<"O","P","T","I","O","N","S">> >>

HttpScheme == <<"h","t","t","p",":","/","/">>
HttpsScheme == <<"h","t","t","p","s",":","/","/">>

\* /^https?:\/\//
BareUrl(line) == startsWith(line, HttpScheme) \/ startsWith(line, HttpsScheme)

\* /^\w+\.\w/ : one or more word characters, a dot, a word character
WordDotWord(url) ==
    \E k \in 1..Len(url) :
        /\ \A j \in 1..k : url[j] \in WordChars
        /\ Len(url) >= k + 2
        /\ url[k + 1] = "."
        /\ url[k + 2] \in WordChars

\* /^(https?:\/\/|\/|{{|\w+\.\w)/
UrlShape(url) ==
    \/ BareUrl(url)
    \/ startsWith(url, <<"/">>)
    \/ startsWith(url, <<"{","{">>)
    \/ WordDotWord(url)

\* a test that takes any line starting with a verb and a space
looksLikeMethodLine_NoShape(line) ==
    \/ \E k \in 1..Len(HTTP_METHODS) : startsWith(line, HTTP_METHODS[k] \o <<" ">>)
    \/ BareUrl(line)

\* a test that forgets the bare URL
looksLikeMethodLine_NoBareUrl(line) ==
    \E k \in 1..Len(HTTP_METHODS) :
        LET m == HTTP_METHODS[k] IN
        /\ startsWith(line, m \o <<" ">>)
        /\ UrlShape(trim(substring(line, Len(m) + 1)))

looksLikeMethodLine(line) ==
    \/ \E k \in 1..Len(HTTP_METHODS) :
          LET m == HTTP_METHODS[k] IN
          /\ startsWith(line, m \o <<" ">>)
          /\ UrlShape(trim(substring(line, Len(m) + 1)))
    \/ BareUrl(line)

\* a split that does not trim the URL
parseMethodUrl_NoTrim(line) ==
    LET hits == {k \in 1..Len(HTTP_METHODS) :
                    startsWith(line, HTTP_METHODS[k] \o <<" ">>)} IN
    IF hits # {}
    THEN LET k == CHOOSE h \in hits : \A g \in hits : h <= g
             m == HTTP_METHODS[k] IN
         [method |-> m, url |-> substring(line, Len(m) + 1)]
    ELSE IF startsWith(line, HttpScheme) \/ startsWith(line, HttpsScheme)
    THEN [method |-> HTTP_METHODS[1], url |-> line]
    ELSE [method |-> <<>>, url |-> <<>>]

parseMethodUrl(line) ==
    LET hits == {k \in 1..Len(HTTP_METHODS) :
                    startsWith(line, HTTP_METHODS[k] \o <<" ">>)} IN
    IF hits # {}
    THEN LET k == CHOOSE h \in hits : \A g \in hits : h <= g
             m == HTTP_METHODS[k] IN
         [method |-> m, url |-> trim(substring(line, Len(m) + 1))]
    ELSE IF startsWith(line, HttpScheme) \/ startsWith(line, HttpsScheme)
    THEN [method |-> HTTP_METHODS[1], url |-> line]
    ELSE [method |-> <<>>, url |-> <<>>]

\* a Record that keeps the value a key was first given
SetHeader_KeepFirst(headers, key, value) ==
    [k \in (DOMAIN headers) \cup {key} |->
        IF k \in DOMAIN headers THEN headers[k] ELSE value]

\* headers[key] = value on a Record<string, string>
SetHeader(headers, key, value) ==
    [k \in (DOMAIN headers) \cup {key} |-> IF k = key THEN value ELSE headers[k]]

\* one pass of the header loop of buildBlock on line i
HeaderLine(headers, line) ==
    LET colonIdx == indexOf(line, ":") IN
    IF colonIdx > 0
    THEN SetHeader(headers, trim(substring2(line, 0, colonIdx)),
                   trim(substring(line, colonIdx + 1)))
    ELSE headers

\* the header loop of buildBlock from line i on: the headers and bodyStart
RECURSIVE HeaderLoop(_, _, _, _)
HeaderLoop(lines, i, end, headers) ==
    IF i > end THEN [headers |-> headers, bodyStart |-> -1]
    ELSE IF trim(At(lines, i)) = <<>>
    THEN [headers |-> headers, bodyStart |-> i + 1]
    ELSE HeaderLoop(lines, i + 1, end, HeaderLine(headers, At(lines, i)))

\* a body taken without trimEnd
BlockBody_NoTrimEnd(lines, bodyStart, end) ==
    IF bodyStart > 0 /\ bodyStart <= end
    THEN join(SubSeq(lines, bodyStart + 1, end + 1))
    ELSE <<>>

\* a body that starts at the boundary line itself
BlockBody_FromBoundary(lines, bodyStart, end) ==
    IF bodyStart > 0 /\ bodyStart <= end
    THEN trimEnd(join(SubSeq(lines, bodyStart, end + 1)))
    ELSE <<>>

\* the body of buildBlock
BlockBody(lines, bodyStart, end) ==
    IF bodyStart > 0 /\ bodyStart <= end
    THEN trimEnd(join(SubSeq(lines, bodyStart + 1, end + 1)))
    ELSE <<>>

\* the block, as a sequence of one block, or the empty sequence for null
buildBlock(lines, start, end, mLine) ==
    LET mu == parseMethodUrl(trim(At(lines, mLine))) IN
    IF mu.method = <<>> THEN <<>>
    ELSE LET h == HeaderLoop(lines, mLine + 1, end, <<>>) IN
         << [method |-> mu.method, url |-> mu.url, headers |-> h.headers,
             body |-> BlockBody(lines, h.bodyStart, end),
             startLine |-> start, endLine |-> end, methodLine |-> mLine] >>

\* a flush that trims nothing
TrimBlankLines_None(lines, endLine, currentMethodLine) == endLine

\* the while loop of flush: trim trailing blank lines
RECURSIVE TrimBlankLines(_, _, _)
TrimBlankLines(lines, endLine, currentMethodLine) ==
    IF endLine > currentMethodLine /\ trim(At(lines, endLine)) = <<>>
    THEN TrimBlankLines(lines, endLine - 1, currentMethodLine)
    ELSE endLine

\* a flush that drops a block made of its method line alone
flush_DropsBare(lines, st, endLine) ==
    IF st.currentMethodLine < 0 THEN st
    ELSE LET e == TrimBlankLines(lines, endLine, st.currentMethodLine)
             block == IF e = st.currentMethodLine THEN <<>>
                      ELSE buildBlock(lines, st.blockStart, e, st.currentMethodLine)
         IN [st EXCEPT !.blocks = @ \o block, !.currentMethodLine = -1]

\* st holds the closure's blockStart, currentMethodLine and blocks
flush(lines, st, endLine) ==
    IF st.currentMethodLine < 0 THEN st
    ELSE LET e == TrimBlankLines(lines, endLine, st.currentMethodLine)
             block == buildBlock(lines, st.blockStart, e, st.currentMethodLine)
         IN [st EXCEPT !.blocks = @ \o block, !.currentMethodLine = -1]

\* a pass that forgets `blockStart = i` when a method line closes a block
ParseStep_KeepStart(lines, st, i) ==
    LET trimmed == trim(At(lines, i)) IN
    IF startsWith(trimmed, <<"#","#","#">>)
    THEN [flush(lines, st, i - 1) EXCEPT !.blockStart = i]
    ELSE IF looksLikeMethodLine(trimmed)
    THEN LET s1 == IF st.currentMethodLine >= 0
                   THEN flush(lines, st, i - 1)
                   ELSE st
             s2 == IF s1.currentMethodLine < 0 /\ s1.blockStart > i
                   THEN [s1 EXCEPT !.blockStart = i]
                   ELSE s1
         IN [s2 EXCEPT !.currentMethodLine = i]
    ELSE st

\* a pass whose separator closes the block but does not move the start
ParseStep_SeparatorKeepsStart(lines, st, i) ==
    LET trimmed == trim(At(lines, i)) IN
    IF startsWith(trimmed, <<"#","#","#">>)
    THEN flush(lines, st, i - 1)
    ELSE IF looksLikeMethodLine(trimmed)
    THEN LET s1 == IF st.currentMethodLine >= 0
                   THEN [flush(lines, st, i - 1) EXCEPT !.blockStart = i]
                   ELSE st
             s2 == IF s1.currentMethodLine < 0 /\ s1.blockStart > i
                   THEN [s1 EXCEPT !.blockStart = i]
                   ELSE s1
         IN [s2 EXCEPT !.currentMethodLine = i]
    ELSE st

\* a pass whose method line closes the open block one line late
ParseStep_FlushAtNew(lines, st, i) ==
    LET trimmed == trim(At(lines, i)) IN
    IF startsWith(trimmed, <<"#","#","#">>)
    THEN [flush(lines, st, i - 1) EXCEPT !.blockStart = i]
    ELSE IF looksLikeMethodLine(trimmed)
    THEN LET s1 == IF st.currentMethodLine >= 0
                   THEN [flush(lines, st, i) EXCEPT !.blockStart = i]
                   ELSE st
             s2 == IF s1.currentMethodLine < 0 /\ s1.blockStart > i
                   THEN [s1 EXCEPT !.blockStart = i]
                   ELSE s1
         IN [s2 EXCEPT !.currentMethodLine = i]
    ELSE st

\* one pass of the for loop of parseHttpFile
ParseStep(lines, st, i) ==
    LET trimmed == trim(At(lines, i)) IN
    IF startsWith(trimmed, <<"#","#","#">>)
    THEN [flush(lines, st, i - 1) EXCEPT !.blockStart = i]
    ELSE IF looksLikeMethodLine(trimmed)
    THEN LET s1 == IF st.currentMethodLine >= 0
                   THEN [flush(lines, st, i - 1) EXCEPT !.blockStart = i]
                   ELSE st
             s2 == IF s1.currentMethodLine < 0 /\ s1.blockStart > i
                   THEN [s1 EXCEPT !.blockStart = i]
                   ELSE s1
         IN [s2 EXCEPT !.currentMethodLine = i]
    ELSE st

RECURSIVE ParseLoop(_, _, _)
ParseLoop(lines, st, i) ==
    IF i < Len(lines) THEN ParseLoop(lines, ParseStep(lines, st, i), i + 1)
    ELSE st

parseHttpFile(content) ==
    LET lines == split(content)
        st0 == [blockStart |-> 0, currentMethodLine |-> -1, blocks |-> <<>>]
    IN flush(lines, ParseLoop(lines, st0, 0), Len(lines) - 1).blocks

\* index i lies within the line array
InRange(lines, i) == 0 <= i /\ i < Len(lines)

\* the indices at which the while loop of flush reads `lines[endLine]`
RECURSIVE TrimReads(_, _, _)
TrimReads(lines, endLine, currentMethodLine) ==
    IF endLine > currentMethodLine
    THEN {endLine} \cup
         (IF InRange(lines, endLine) /\ trim(At(lines, endLine)) = <<>>
          THEN TrimReads(lines, endLine - 1, currentMethodLine)
          ELSE {})
    ELSE {}

\* the indices at which the header loop of buildBlock reads `lines[i]`
RECURSIVE HeaderReads(_, _, _)
HeaderReads(lines, i, end) ==
    IF i > end THEN {}
    ELSE {i} \cup
         (IF InRange(lines, i) /\ trim(At(lines, i)) # <<>>
          THEN HeaderReads(lines, i + 1, end)
          ELSE {})

\* the indices buildBlock reads: lines[mLine], then the header loop
buildBlockReads(lines, end, mLine) ==
    {mLine} \cup
    (IF InRange(lines, mLine) /\ parseMethodUrl(trim(At(lines, mLine))).method # <<>>
     THEN HeaderReads(lines, mLine + 1, end)
     ELSE {})

\* a flush without its `if (currentMethodLine < 0) return`
flushReads_NoGuard(lines, st, endLine) ==
    TrimReads(lines, endLine, st.currentMethodLine) \cup
    buildBlockReads(lines,
        IF endLine > st.currentMethodLine
        THEN TrimBlankLines(lines, endLine, st.currentMethodLine) ELSE endLine,
        st.currentMethodLine)

\* the indices flush(endLine) reads in closure state st
flushReads(lines, st, endLine) ==
    IF st.currentMethodLine < 0 THEN {}
    ELSE TrimReads(lines, endLine, st.currentMethodLine) \cup
         buildBlockReads(lines,
             TrimBlankLines(lines, endLine, st.currentMethodLine),
             st.currentMethodLine)

\* the indices pass i of the for loop reads: lines[i], and what a flush reads
StepReads(lines, st, i) ==
    LET trimmed == trim(At(lines, i)) IN
    {i} \cup
    (IF startsWith(trimmed, <<"#","#","#">>) THEN flushReads(lines, st, i - 1)
     ELSE IF looksLikeMethodLine(trimmed) /\ st.currentMethodLine >= 0
     THEN flushReads(lines, st, i - 1)
     ELSE {})

RECURSIVE ReadsLoop(_, _, _)
ReadsLoop(lines, st, i) ==
    IF i < Len(lines)
    THEN StepReads(lines, st, i) \cup
         ReadsLoop(lines, ParseStep(lines, st, i), i + 1)
    ELSE flushReads(lines, st, Len(lines) - 1)

\* every index at which parseHttpFile(content) reads the line array
parseReads(content) ==
    LET lines == split(content)
        st0 == [blockStart |-> 0, currentMethodLine |-> -1, blocks |-> <<>>]
    IN ReadsLoop(lines, st0, 0)

\* a lookup that misses the first line of a range
findRequestAtLine_AfterStart(blks, line) ==
    LET hits == {k \in 1..Len(blks) :
                    line > blks[k].startLine /\ line <= blks[k].endLine} IN
    IF hits = {} THEN <<>>
    ELSE << blks[CHOOSE h \in hits : \A g \in hits : h <= g] >>

\* the first block whose range holds line, as a sequence of one block, or
\* the empty sequence for null
findRequestAtLine(blks, line) ==
    LET hits == {k \in 1..Len(blks) :
                    line >= blks[k].startLine /\ line <= blks[k].endLine} IN
    IF hits = {} THEN <<>>
    ELSE << blks[CHOOSE h \in hits : \A g \in hits : h <= g] >>

----------------------------------------------------------------------------
(* The documents the editor is given, line by line *)

LineSet ==
    { <<>>,                                      \* a blank line
      <<" ">>,                                   \* a blank line of spaces
      <<"#","#","#"," ","G","E","T"," ","/","a">>, \* a separator
      <<"G","E","T"," ","/","a">>,               \* a method line
      <<" ","P","U","T"," "," ","b",".","c"," ">>, \* an indented method line
      <<"h","t","t","p",":","/","/","a">>,       \* a bare URL
      <<"G","E","T"," ","x">>,                   \* a verb, no URL shape
      <<"A",":"," ","1">>,                       \* a header
      <<"A"," ",":","2"," ">>,                   \* the same header again
      <<"#"," ","c",":","d">>,                   \* a comment with a colon
      <<"/","/","e",":","f">>,                   \* a // comment with a colon
      <<":","x"," ">> }                          \* a colon at index 0

\* the documents of the lookup: one line of each kind
\* the line kinds that decide where a block opens and closes
BlockLines ==
    { <<>>,                                      \* a blank line
      <<" ">>,                                   \* a blank line of spaces
      <<"#","#","#"," ","G","E","T"," ","/","a">>, \* a separator
      <<"G","E","T"," ","/","a">>,               \* a method line
      <<" ","P","U","T"," "," ","b",".","c"," ">>, \* an indented method line
      <<"h","t","t","p",":","/","/","a">>,       \* a bare URL
      <<"G","E","T"," ","x">>,                   \* a verb, no URL shape
      <<"A",":"," ","1">> }                      \* a header

\* the line kinds that decide what the body of a block is
BodyLines ==
    { <<>>,                                      \* a blank line
      <<" ">>,                                   \* a blank line of spaces
      <<"#","#","#">>,                           \* a separator
      <<"G","E","T"," ","/","a">>,               \* a method line
      <<"A",":"," ","1">>,                       \* a header
      <<"{">>,                                   \* body text
      <<"x"," ">> }                              \* body text ending in a space

FindLines ==
    { <<>>,
      <<"#","#","#">>,
      <<"G","E","T"," ","/","a">>,
      <<"A",":"," ","1">>,
      <<"x">> }

\* the documents requests are run from: a GET with a header, a POST with a
\* header and a body that is no JSON, a PUT with a JSON body to a URL that
\* does not parse, a GET with two headers
RunDocs ==
    { join(<< <<"G","E","T"," ","/","a">>,
              <<"A",":"," ","1">>,
              <<"P","O","S","T"," ","h","t","t","p",":","/","/","a">>,
              <<"A",":"," ","1">>,
              <<>>,
              <<":","x">>,
              <<"P","U","T"," ","/","%">>,
              <<>>,
              <<"{","}">> >>),
      join(<< <<"h","t","t","p",":","/","/","b">>,
              <<"A",":"," ","1">>,
              <<"B",":"," ","2">> >>) }

\* the document concurrent requests are run from: a GET and a POST with a body
ConcDocs ==
    { join(<< <<"G","E","T"," ","/","a">>,
              <<"P","O","S","T"," ","h","t","t","p",":","/","/","a">>,
              <<>>,
              <<":","x">> >>) }

NumLines(content) == Len(split(content))

----------------------------------------------------------------------------
(* app.go: Execute *)

CallIds == 1..MaxCalls

\* the timeout of the shared client, in seconds
ClientTimeout == 30

\* NewApp followed by Startup
NewApp == [ctx |-> "ctx", client |-> [Timeout |-> ClientTimeout]]

ContentType == <<"C","o","n","t","e","n","t","-","T","y","p","e">>
ApplicationJson ==
    <<"a","p","p","l","i","c","a","t","i","o","n","/","j","s","o","n">>

\* the token characters of an HTTP method besides letters and digits
TokenPunct == {"!","#","$","%","&","*","+","-",".","^","|","~"}

HexDigits ==
    {"0","1","2","3","4","5","6","7","8","9",
     "a","b","c","d","e","f","A","B","C","D","E","F"}

\* net/http validMethod: a non-empty token
validMethod(method) ==
    /\ method # <<>>
    /\ \A k \in 1..Len(method) : method[k] \in WordChars \cup TokenPunct

\* net/url Parse fails on a % that two hex digits do not follow and on a
\* leading colon (missing protocol scheme)
urlParseFails(url) ==
    \/ \E k \in 1..Len(url) :
          /\ url[k] = "%"
          /\ \/ k + 2 > Len(url)
             \/ url[k + 1] \notin HexDigits
             \/ url[k + 2] \notin HexDigits
    \/ startsWith(url, <<":">>)

\* http.NewRequest(method, url, requestBody): the request, or an error
NewRequest(method, url, requestBody) ==
    LET m == IF method = <<>> THEN HTTP_METHODS[1] ELSE method IN
    IF ~ validMethod(m)
    THEN [err |-> "net/http: invalid method", req |-> <<>>]
    ELSE IF urlParseFails(url)
    THEN [err |-> "parse: invalid URL", req |-> <<>>]
    ELSE [err |-> "",
          req |-> << [Method |-> m, URL |-> url, Header |-> <<>>,
                      Body |-> requestBody] >>]

\* the request body reader: nil (the empty sequence) for an empty body
RequestBody(body) == IF body # <<>> THEN <<body>> ELSE <<>>

\* a header set whatever the body is
RequestHeader_Always(header, body) ==
    SetHeader(header, ContentType, ApplicationJson)

\* req.Header after `if body != "" { req.Header.Set(...) }`
RequestHeader(header, body) ==
    IF body # <<>> THEN SetHeader(header, ContentType, ApplicationJson)
    ELSE header

\* the zero value of Response
ZeroResponse ==
    [Status |-> 0, Headers |-> <<>>, Body |-> <<>>, Duration |-> 0, Error |-> ""]

\* Response{Error: err.Error()}
ConstructErrorResult(err) == [ZeroResponse EXCEPT !.Error = err]

\* a transport failure reported like a construction failure, without timing
TransportErrorResult_NoDuration(err, start, t) ==
    [ZeroResponse EXCEPT !.Error = err]

\* Response{Error: err.Error(), Duration: time.Since(start).Milliseconds()}
TransportErrorResult(err, start, t) ==
    [ZeroResponse EXCEPT !.Error = err, !.Duration = t - start]

\* http.Header.Get: the first value of the key, "" when there is none
HeaderGet(header, key) ==
    IF key \in DOMAIN header /\ header[key] # <<>> THEN header[key][1]
    ELSE <<>>

\* the loop `for key := range resp.Header { headers[key] = resp.Header.Get(key) }`
FlattenHeaders(header) ==
    [key \in DOMAIN header |-> HeaderGet(header, key)]

\* a result that reports a status of 400 and above as an error
ResponseResult_ErrorStatus(resp, respBody, start, t) ==
    IF resp.StatusCode >= 400
    THEN [ZeroResponse EXCEPT !.Error = "bad status", !.Duration = t - start]
    ELSE [Status |-> resp.StatusCode, Headers |-> FlattenHeaders(resp.Header),
          Body |-> respBody, Duration |-> t - start, Error |-> ""]

\* a result that carries no timing
ResponseResult_NoDuration(resp, respBody, start, t) ==
    [Status |-> resp.StatusCode, Headers |-> FlattenHeaders(resp.Header),
     Body |-> respBody, Duration |-> 0, Error |-> ""]

\* the Response returned once the body was read
ResponseResult(resp, respBody, start, t) ==
    [Status |-> resp.StatusCode, Headers |-> FlattenHeaders(resp.Header),
     Body |-> respBody, Duration |-> t - start, Error |-> ""]

\* what the transport may answer: a status, a multi-valued header, a body
Responses ==
    { [StatusCode |-> 200,
       Header |-> (<<"V","i","a">> :> << <<"p">> >>),
       Body |-> <<"o","k">>],
      [StatusCode |-> 404, Header |-> <<>>, Body |-> <<>>],
      [StatusCode |-> 500,
       Header |-> (<<"V","i","a">> :> << <<"p">>, <<"q">> >>),
       Body |-> <<"n","o">>] }

\* arguments of Execute that no parsed block holds: a method that is no token
DirectArgs ==
    { [method |-> <<"G"," ","T">>,
       url |-> <<"h","t","t","p",":","/","/","a">>,
       body |-> <<>>] }

\* how client.Do may fail
TransportErrors == {"dial tcp: connection refused", "context deadline exceeded"}

\* a call that has not started
IdleCall ==
    [pc |-> "idle", block |-> <<>>, method |-> <<>>, url |-> <<>>, body |-> <<>>,
     start |-> 0, sent |-> <<>>, resp |-> <<>>, outcome |-> "none",
     readErr |-> FALSE, endAt |-> 0, result |-> <<>>]

\* Execute is entered: `start := time.Now()`
ExecuteStart(c, block, method, url, body) ==
    /\ calls[c].pc = "idle"
    /\ calls' = [calls EXCEPT ![c] =
           [@ EXCEPT !.pc = "new", !.block = block, !.method = method,
               !.url = url, !.body = body, !.start = now]]

\* a construction failure that reports the time since the start
NewRequestReturns_Timed(c) ==
    /\ calls[c].pc = "new"
    /\ LET body == calls[c].body
           nr == NewRequest(calls[c].method, calls[c].url, RequestBody(body))
       IN IF nr.err # ""
          THEN calls' = [calls EXCEPT ![c] =
                   [@ EXCEPT !.pc = "done", !.outcome = "construct",
                       !.endAt = now,
                       !.result = <<TransportErrorResult(nr.err, calls[c].start,
                                                         now)>>]]
          ELSE calls' = [calls EXCEPT ![c] =
                   [@ EXCEPT !.pc = "do",
                       !.sent = << [nr.req[1] EXCEPT
                           !.Header = RequestHeader(@, body)] >>]]
    /\ UNCHANGED <<editorVars, now, app, uiVars, sideVars>>

\* Execute from http.NewRequest to the call of client.Do: the request is
\* built and handed to the transport, or the construction error is returned
NewRequestReturns(c) ==
    /\ calls[c].pc = "new"
    /\ LET body == calls[c].body
           nr == NewRequest(calls[c].method, calls[c].url, RequestBody(body))
       IN IF nr.err # ""
          THEN calls' = [calls EXCEPT ![c] =
                   [@ EXCEPT !.pc = "done", !.outcome = "construct",
                       !.endAt = now,
                       !.result = <<ConstructErrorResult(nr.err)>>]]
          ELSE calls' = [calls EXCEPT ![c] =
                   [@ EXCEPT !.pc = "do",
                       !.sent = << [nr.req[1] EXCEPT
                           !.Header = RequestHeader(@, body)] >>]]
    /\ UNCHANGED <<editorVars, now, app, uiVars, sideVars>>

\* a failed client.Do that is tried once more before it is reported
DoFails_RetryOnce(c) ==
    /\ calls[c].pc = "do"
    /\ IF Len(calls[c].sent) < 2
       THEN calls' = [calls EXCEPT ![c] =
                [@ EXCEPT !.sent = Append(@, calls[c].sent[1])]]
       ELSE \E err \in TransportErrors :
              calls' = [calls EXCEPT ![c] =
                  [@ EXCEPT !.pc = "done", !.outcome = "transport",
                      !.endAt = now,
                      !.result = <<TransportErrorResult(err, calls[c].start,
                                                        now)>>]]
    /\ UNCHANGED <<editorVars, now, app, uiVars, sideVars>>

\* a failed client.Do that fails every call waiting on the shared client
DoFails_FailsAll(c) ==
    /\ calls[c].pc = "do"
    /\ \E err \in TransportErrors :
          calls' = [d \in DOMAIN calls |->
              IF calls[d].pc = "do"
              THEN [calls[d] EXCEPT !.pc = "done", !.outcome = "transport",
                       !.endAt = now,
                       !.result = <<TransportErrorResult(err, calls[d].start,
                                                         now)>>]
              ELSE calls[d]]
    /\ UNCHANGED <<editorVars, now, app, uiVars, sideVars>>

\* client.Do returns an error: Execute returns the failure
DoFails(c) ==
    /\ calls[c].pc = "do"
    /\ \E err \in TransportErrors :
          calls' = [calls EXCEPT ![c] =
              [@ EXCEPT !.pc = "done", !.outcome = "transport", !.endAt = now,
                  !.result = <<TransportErrorResult(err, calls[c].start, now)>>]]
    /\ UNCHANGED <<editorVars, now, app, uiVars, sideVars>>

\* client.Do returns a response: Execute goes on to read its body
DoResponds(c) ==
    /\ calls[c].pc = "do"
    /\ \E resp \in Responses :
          calls' = [calls EXCEPT ![c] = [@ EXCEPT !.pc = "read", !.resp = <<resp>>]]
    /\ UNCHANGED <<editorVars, now, app, uiVars, sideVars>>

\* io.ReadAll returns the whole body, or the part read before an error that
\* Execute drops; Execute returns the result
ReadAllReturns(c) ==
    /\ calls[c].pc = "read"
    /\ LET resp == calls[c].resp[1] IN
       \E n \in 0..Len(resp.Body) :
          calls' = [calls EXCEPT ![c] =
              [@ EXCEPT !.pc = "done", !.outcome = "response", !.endAt = now,
                  !.readErr = (n < Len(resp.Body)),
                  !.result = <<ResponseResult(resp, SubSeq(resp.Body, 1, n),
                                              calls[c].start, now)>>]]
    /\ UNCHANGED <<editorVars, now, app, uiVars, sideVars>>

\* time passes
Tick ==
    /\ now < MaxTime
    /\ now' = now + 1
    /\ UNCHANGED <<editorVars, calls, app, uiVars, sideVars>>

----------------------------------------------------------------------------
(* App.svelte: the editor *)

\* setTimeout(..., 500): the delay of the save timer, in ms
SaveDelay == 500

\* a scheduleSave without the `if (!fileLoaded) return`
scheduleSave_Unguarded(content) ==
    saveTimer' = << [content |-> content, due |-> now + SaveDelay] >>

\* scheduleSave once fileLoaded was written in the same step or before:
\* nothing before the file was loaded, else the pending timer is cleared
\* and one for this content is set
scheduleSave(content) ==
    IF ~ fileLoaded' THEN UNCHANGED saveTimer
    ELSE saveTimer' = << [content |-> content, due |-> now + SaveDelay] >>

\* the component's variables at their declarations
InitDeclared ==
    /\ loading = FALSE
    /\ responses = <<>>
    /\ nextId = 1
    /\ awaiting = {}
    /\ saved = <<>>
    /\ version = <<"d","e","v">>
    /\ info = <<>>
    /\ updateInfo = <<>>
    /\ str = <<>>
    /\ html = <<>>

\* the component once onMount has loaded the file: the load scheduled a save
InitMounted ==
    /\ InitDeclared
    /\ fileLoaded = TRUE
    /\ saveTimer = << [content |-> editorContent, due |-> now + SaveDelay] >>

\* onMount: the loaded file becomes the content; blocks is derived from it
InitEditor(S) ==
    /\ editorContent \in S
    /\ blocks = parseHttpFile(editorContent)
    /\ cursorLine = 0
    /\ found = <<"none">>
    /\ calls = [c \in CallIds |-> IdleCall]
    /\ now = 0
    /\ app = NewApp
    /\ InitMounted

\* the user adds a line; `$: blocks = parseHttpFile(editorContent)` and
\* `$: scheduleSave(editorContent)` rerun
Edit(S) ==
    /\ NumLines(editorContent) < MaxLines
    /\ \E l \in S :
          editorContent' = editorContent \o <<"\n">> \o l
    /\ blocks' = parseHttpFile(editorContent')
    /\ found' = <<"none">>
    /\ UNCHANGED <<cursorLine, execVars, uiVars, fileLoaded, saved, updateVars,
                   hlVars>>
    /\ scheduleSave(editorContent')

\* the caret moves to a line of the document
updateCursorLine ==
    /\ \E l \in 0..(NumLines(editorContent) - 1) : cursorLine' = l
    /\ found' = <<"none">>
    /\ UNCHANGED <<editorContent, blocks, execVars, uiVars, sideVars>>

\* a second parse that pushes onto the blocks of the first, as a block
\* array kept outside the call would
Reparse_Accumulates ==
    /\ blocks' = blocks \o parseHttpFile(editorContent)
    /\ UNCHANGED <<editorContent, cursorLine, found, execVars, uiVars, sideVars>>

\* parseHttpFile is called once more on the text it was last called on
Reparse ==
    /\ blocks' = parseHttpFile(editorContent)
    /\ UNCHANGED <<editorContent, cursorLine, found, execVars, uiVars, sideVars>>

\* runRequest up to `await Execute(block.method, block.url, block.body)`
runRequest(c, block) ==
    /\ loading' = TRUE
    /\ awaiting' = awaiting \cup {c}
    /\ ExecuteStart(c, <<block>>, block.method, block.url, block.body)

\* runRequest from the return of Execute on: the entry is put at the head
\* of the log under the next id, and `finally` writes loading = false
runRequestResumes(c) ==
    /\ c \in awaiting
    /\ calls[c].pc = "done"
    /\ LET block == calls[c].block[1]
           resp == calls[c].result[1]
       IN responses' =
            << [id |-> nextId, method |-> block.method, url |-> block.url,
                status |-> resp.Status, headers |-> resp.Headers,
                body |-> resp.Body, duration |-> resp.Duration,
                error |-> resp.Error, timestamp |-> now] >> \o responses
    /\ nextId' = nextId + 1
    /\ loading' = FALSE
    /\ awaiting' = awaiting \ {c}
    /\ UNCHANGED <<editorVars, execVars, sideVars>>

\* a Clear that also starts the ids over
clearResponses_ResetsId ==
    /\ responses' = <<>>
    /\ nextId' = 1
    /\ UNCHANGED <<editorVars, execVars, loading, awaiting, sideVars>>

\* the Clear button
clearResponses ==
    /\ responses' = <<>>
    /\ UNCHANGED <<editorVars, execVars, loading, nextId, awaiting, sideVars>>

\* Ctrl+Enter: the block under the caret, if any, goes to runRequest
handleKeydown(c) ==
    /\ found = <<"none">>
    /\ LET block == findRequestAtLine(blocks, cursorLine) IN
       /\ found' = <<"ran", block>>
       /\ IF block # <<>>
          THEN runRequest(c, block[1])
          ELSE UNCHANGED <<calls, loading, awaiting>>
    /\ UNCHANGED <<editorContent, blocks, cursorLine, now, app, responses,
                   nextId, sideVars>>

\* a click on the gutter at a method line runs the block of that line
handleGutterClick(c) ==
    \E lineIdx \in 0..(NumLines(editorContent) - 1) :
        \E k \in 1..Len(blocks) :
            /\ blocks[k].methodLine = lineIdx
            /\ \A j \in 1..(k - 1) : blocks[j].methodLine # lineIdx
            /\ runRequest(c, blocks[k])
            /\ UNCHANGED <<editorVars, now, app, responses, nextId, sideVars>>

\* Execute called through the binding with arguments no parse produces
ExecuteDirect(c) ==
    /\ \E args \in DirectArgs :
          ExecuteStart(c, <<>>, args.method, args.url, args.body)
    /\ UNCHANGED <<editorVars, now, app, uiVars, sideVars>>

----------------------------------------------------------------------------
(* Specifications *)

\* the editor and the parser over every document of LineSet lines
Init == InitEditor(LineSet)

EditDocument == Edit(LineSet)

Next == EditDocument

Spec == Init /\ [][Next]_vars

\* the editor, the caret and the lookup over every document of FindLines
\* documents that put separators, method lines and look-alikes side by side
InitBlocks == InitEditor(BlockLines)

EditBlocks == Edit(BlockLines)

NextBlocks == EditBlocks \/ Reparse

SpecBlocks == InitBlocks /\ [][NextBlocks]_vars

\* the lines of the documents that are parsed twice
ReparseLines ==
    { <<>>,
      <<"#","#","#">>,
      <<"G","E","T"," ","/","a">>,
      <<"A",":"," ","1">> }

InitReparse == InitEditor(ReparseLines)

EditReparse == Edit(ReparseLines)

NextReparse == EditReparse \/ Reparse

SpecReparse == InitReparse /\ [][NextReparse]_vars

\* documents of method lines, blank lines and body text
InitBody == InitEditor(BodyLines)

EditBody == Edit(BodyLines)

NextBody == EditBody

SpecBody == InitBody /\ [][NextBody]_vars

InitFind == InitEditor(FindLines)

EditFind == Edit(FindLines)

NextFind ==
    \/ EditFind
    \/ updateCursorLine
    \/ \E c \in CallIds : handleKeydown(c)

SpecFind == InitFind /\ [][NextFind]_vars

\* a document of three requests is loaded, requests are run from the gutter
\* and the transport answers
InitExec == InitEditor(RunDocs)

NextExec ==
    \/ \E c \in CallIds : handleGutterClick(c)
    \/ \E c \in CallIds : ExecuteDirect(c)
    \/ \E c \in CallIds : NewRequestReturns(c)
    \/ \E c \in CallIds : DoFails(c)
    \/ \E c \in CallIds : DoResponds(c)
    \/ \E c \in CallIds : ReadAllReturns(c)
    \/ Tick

SpecExec == InitExec /\ [][NextExec]_vars

\* several calls of Execute in flight on the one App
ConcIds == {1, 2}

InitConc ==
    /\ editorContent \in ConcDocs
    /\ blocks = parseHttpFile(editorContent)
    /\ cursorLine = 0
    /\ found = <<"none">>
    /\ calls = [c \in ConcIds |-> IdleCall]
    /\ now = 0
    /\ app = NewApp
    /\ InitMounted

NextConc ==
    \/ \E c \in ConcIds : handleGutterClick(c)
    \/ \E c \in ConcIds : NewRequestReturns(c)
    \/ \E c \in ConcIds : DoFails(c)
    \/ \E c \in ConcIds : DoResponds(c)
    \/ \E c \in ConcIds : ReadAllReturns(c)
    \/ Tick

SpecConc == InitConc /\ [][NextConc]_vars

\* the editor with requests started from the gutter and by Ctrl+Enter,
\* their results put into the response log, and the Clear button
NextUi ==
    \/ \E c \in ConcIds : handleGutterClick(c)
    \/ \E c \in ConcIds : handleKeydown(c)
    \/ updateCursorLine
    \/ \E c \in ConcIds : NewRequestReturns(c)
    \/ \E c \in ConcIds : DoFails(c)
    \/ \E c \in ConcIds : DoResponds(c)
    \/ \E c \in ConcIds : ReadAllReturns(c)
    \/ \E c \in ConcIds : runRequestResumes(c)
    \/ clearResponses

SpecUi == InitConc /\ [][NextUi]_vars

----------------------------------------------------------------------------
(* App.svelte: loading the file and saving the content *)

\* DEFAULT_CONTENT: the document shown when the file is missing or empty
DEFAULT_CONTENT ==
    <<"#","#","#"," ","S","i","m","p","l","e"," ","G","E","T","\n">> \o
    <<"G","E","T"," ","h","t","t","p","s",":","/","/","h","t","t","p",
      "b","i","n",".","o","r","g","/","g","e","t","\n">> \o
    <<"\n">> \o
    <<"#","#","#"," ","P","O","S","T"," ","w","i","t","h"," ","J","S",
      "O","N"," ","b","o","d","y","\n">> \o
    <<"P","O","S","T"," ","h","t","t","p","s",":","/","/","h","t","t",
      "p","b","i","n",".","o","r","g","/","p","o","s","t","\n">> \o
    <<"C","o","n","t","e","n","t","-","T","y","p","e",":"," ","a","p",
      "p","l","i","c","a","t","i","o","n","/","j","s","o","n","\n">> \o
    <<"\n">> \o
    <<"{","\n">> \o
    <<" "," ","\"","n","a","m","e","\"",":"," ","\"","d","i","s","p","a",
      "t","c","h","\"",",","\n">> \o
    <<" "," ","\"","v","e","r","s","i","o","n","\"",":"," ","\"","1",".",
      "0","\"","\n">> \o
    <<"}">>

\* what LoadFile returns: "" for a missing, unreadable or empty file,
\* else the text of the file
FileContents ==
    { <<>>,
      <<"G","E","T"," ","/","a">>,
      <<"\n","x">> }

\* the lines typed while saving is observed
SaveLines ==
    { <<"x">>,
      <<"G","E","T"," ","/","a">> }

\* half of the delay: the time that passes between two events
SaveStep == SaveDelay \div 2

\* the component as declared, before onMount's LoadFile has returned
InitSave ==
    /\ editorContent = <<>>
    /\ blocks = <<>>
    /\ cursorLine = 0
    /\ found = <<"none">>
    /\ calls = [c \in CallIds |-> IdleCall]
    /\ now = 0
    /\ app = NewApp
    /\ InitDeclared
    /\ fileLoaded = FALSE
    /\ saveTimer = <<>>

\* onMount: LoadFile returns; the content becomes the file's text or the
\* default document and fileLoaded is set before the reactive statements
\* rerun, which they do when editorContent got another value
LoadFileReturns ==
    /\ ~ fileLoaded
    /\ \E content \in FileContents :
          editorContent' = IF content = <<>> THEN DEFAULT_CONTENT ELSE content
    /\ fileLoaded' = TRUE
    /\ blocks' = parseHttpFile(editorContent')
    /\ found' = <<"none">>
    /\ IF editorContent' # editorContent
          THEN scheduleSave(editorContent')
          ELSE UNCHANGED saveTimer
    /\ UNCHANGED <<cursorLine, execVars, uiVars, saved, updateVars, hlVars>>

\* the timer's callback runs when its delay has passed: SaveFile(content)
SaveTimerFires ==
    /\ saveTimer # <<>>
    /\ now' = IF now < saveTimer[1].due THEN saveTimer[1].due ELSE now
    /\ saved' = Append(saved, [content |-> saveTimer[1].content, at |-> now'])
    /\ saveTimer' = <<>>
    /\ UNCHANGED <<editorVars, calls, app, uiVars, fileLoaded, updateVars,
                   hlVars>>

\* time passes, short of the moment the pending timer is due
TimePasses ==
    /\ now < MaxTime * SaveDelay
    /\ saveTimer # <<>> => now + SaveStep < saveTimer[1].due
    /\ now' = now + SaveStep
    /\ UNCHANGED <<editorVars, calls, app, uiVars, sideVars>>

EditSave == Edit(SaveLines)

NextSave ==
    \/ LoadFileReturns
    \/ EditSave
    \/ SaveTimerFires
    \/ TimePasses

\* the event loop runs the callback of a timer that is due
SpecSave == InitSave /\ [][NextSave]_vars /\ WF_vars(SaveTimerFires)

----------------------------------------------------------------------------
(* app.go: the update check *)

\* the bytes of the characters that the padded numbers are made of
Byte(c) ==
    CASE c = "-" -> 45
      [] c = "0" -> 48 [] c = "1" -> 49 [] c = "2" -> 50 [] c = "3" -> 51
      [] c = "4" -> 52 [] c = "5" -> 53 [] c = "6" -> 54 [] c = "7" -> 55
      [] c = "8" -> 56 [] c = "9" -> 57

IsDigit(c) == c \in {"0","1","2","3","4","5","6","7","8","9"}

\* strings.TrimPrefix(s, prefix) for a prefix of one character
TrimPrefix(s, prefix) ==
    IF Len(s) >= 1 /\ s[1] = prefix THEN Tail(s) ELSE s

RECURSIVE SplitN(_, _, _)
\* strings.SplitN(s, sep, n) for a separator of one character and n >= 1:
\* at most n parts, the last one being the unsplit rest
SplitN(s, sep, n) ==
    LET at == { i \in 1..Len(s) : s[i] = sep }
    IN IF n = 1 \/ at = {}
         THEN << s >>
         ELSE LET i == CHOOSE k \in at : \A j \in at : k <= j
              IN << SubSeq(s, 1, i - 1) >>
                   \o SplitN(SubSeq(s, i + 1, Len(s)), sep, n - 1)

RECURSIVE DigitsValue(_)
DigitsValue(ds) ==
    IF ds = <<>> THEN 0
    ELSE 10 * DigitsValue(SubSeq(ds, 1, Len(ds) - 1)) + (Byte(ds[Len(ds)]) - 48)

\* strconv.Atoi: an optional sign and one or more decimal digits; <<>> is
\* the error, << n >> the number
Atoi(s) ==
    LET signed == Len(s) >= 1 /\ s[1] \in {"+", "-"}
        ds == IF signed THEN Tail(s) ELSE s
    IN IF ds = <<>> \/ \E i \in 1..Len(ds) : ~ IsDigit(ds[i])
         THEN <<>>
         ELSE << IF signed /\ s[1] = "-" THEN 0 - DigitsValue(ds)
                 ELSE DigitsValue(ds) >>

RECURSIVE Digits(_)
\* the decimal digits of n >= 0
Digits(n) ==
    IF n < 10 THEN << CHOOSE c \in {"0","1","2","3","4","5","6","7","8","9"} :
                          Byte(c) = 48 + n >>
    ELSE Digits(n \div 10) \o Digits(n % 10)

RECURSIVE Zeros(_)
Zeros(k) == IF k <= 0 THEN <<>> ELSE <<"0">> \o Zeros(k - 1)

\* the width of %09d
PadWidth == 9

\* fmt.Sprintf("%09d", n): the sign, if any, then zeros, then the digits,
\* at least nine characters in all
Pad09(n) ==
    IF n < 0
      THEN LET ds == Digits(0 - n)
           IN <<"-">> \o Zeros(PadWidth - 1 - Len(ds)) \o ds
      ELSE LET ds == Digits(n)
           IN Zeros(PadWidth - Len(ds)) \o ds

RECURSIVE StringGreater(_, _)
\* a > b on Go strings: byte by byte, a proper prefix being the smaller
StringGreater(a, b) ==
    IF a = <<>> THEN FALSE
    ELSE IF b = <<>> THEN TRUE
    ELSE IF Byte(a[1]) # Byte(b[1]) THEN Byte(a[1]) > Byte(b[1])
    ELSE StringGreater(Tail(a), Tail(b))

\* the closure parse of isNewer: << <<maj, min, pat>> >>, or <<>> for !ok
parse(s) ==
    LET parts == SplitN(TrimPrefix(s, "v"), ".", 3)
    IN IF Len(parts) # 3 THEN <<>>
       ELSE LET maj == Atoi(parts[1])
                min == Atoi(parts[2])
                pat == Atoi(parts[3])
            IN IF maj = <<>> \/ min = <<>> \/ pat = <<>> THEN <<>>
               ELSE << <<maj[1], min[1], pat[1]>> >>

isNewer(latest, current) ==
    LET l == parse(latest)
        c == parse(current)
    IN IF l = <<>> \/ c = <<>> THEN FALSE
       ELSE LET lVal == Pad09(l[1][1]) \o Pad09(l[1][2]) \o Pad09(l[1][3])
                cVal == Pad09(c[1][1]) \o Pad09(c[1][2]) \o Pad09(c[1][3])
            IN StringGreater(lVal, cVal)

\* the values of `version`: "dev" unless the build sets it
Versions ==
    { <<"d","e","v">>,
      <<"1",".","2",".","3">>,
      <<"v","1",".","2",".","3">>,
      <<"1",".","1","0",".","0">>,
      <<"1",".","2">>,
      <<"1",".","2",".","x">>,
      <<"9","9","9","9","9","9","9","9","9",".","0",".","0">>,
      <<"1","0","0","0","0","0","0","0","0","0",".","0",".","0">>,
      <<"1",".","0",".","-","1">>,
      <<"1",".","0",".","-","2">> }

\* the tag_name of the latest release
TagNames ==
    { <<"v","1",".","2",".","3">>,
      <<"v","1",".","2",".","4">>,
      <<"v","1",".","9",".","9">>,
      <<"v","2",".","0",".","0">>,
      <<"1",".","2",".","3",".","4">>,
      <<"v","1",".","2",".","4","-","r","c","1">>,
      <<"v","1",".","3">>,
      <<"v","9","9","9","9","9","9","9","9","9",".","0",".","0">>,
      <<"v","1","0","0","0","0","0","0","0","0","0",".","0",".","0">>,
      <<"v","1",".","0",".","-","1">>,
      <<"v","1",".","0",".","-","2">>,
      <<"v","+","1",".","2",".","4">>,
      <<>> }

\* UpdateInfo{CurrentVersion: version}
NoUpdateInfo ==
    [CurrentVersion |-> version, LatestVersion |-> <<>>,
     UpdateAvailable |-> FALSE, ReleaseURL |-> <<>>]

\* the component and the App of a build with some version
InitUpdate ==
    /\ editorContent = DEFAULT_CONTENT
    /\ blocks = parseHttpFile(editorContent)
    /\ cursorLine = 0
    /\ found = <<"none">>
    /\ calls = [c \in CallIds |-> IdleCall]
    /\ now = 0
    /\ app = NewApp
    /\ loading = FALSE
    /\ responses = <<>>
    /\ nextId = 1
    /\ awaiting = {}
    /\ fileLoaded = TRUE
    /\ saveTimer = << [content |-> editorContent, due |-> now + SaveDelay] >>
    /\ saved = <<>>
    /\ version \in Versions
    /\ info = <<>>
    /\ updateInfo = <<>>
    /\ str = <<>>
    /\ html = <<>>

\* CheckForUpdate of a dev build returns before any request is made
CheckForUpdateDev ==
    /\ version = <<"d","e","v">>
    /\ info' = << NoUpdateInfo >>
    /\ UNCHANGED <<editorVars, execVars, uiVars, saveVars, version,
                   updateInfo, hlVars>>

\* CheckForUpdate when the request fails, the status is not 200 or the
\* body does not decode
CheckForUpdateFails ==
    /\ version # <<"d","e","v">>
    /\ info' = << NoUpdateInfo >>
    /\ UNCHANGED <<editorVars, execVars, uiVars, saveVars, version,
                   updateInfo, hlVars>>

\* CheckForUpdate when the latest release was decoded
CheckForUpdate(tag) ==
    /\ version # <<"d","e","v">>
    /\ info' = << [CurrentVersion |-> version,
                   LatestVersion |-> tag,
                   UpdateAvailable |-> isNewer(tag, version),
                   ReleaseURL |-> <<"u">>] >>
    /\ UNCHANGED <<editorVars, execVars, uiVars, saveVars, version,
                   updateInfo, hlVars>>

\* onMount: CheckForUpdate().then(...) keeps the info of an update
CheckForUpdateThen ==
    /\ info # <<>>
    /\ info[1].UpdateAvailable
    /\ updateInfo' = info
    /\ UNCHANGED <<editorVars, execVars, uiVars, saveVars, version, info,
                   hlVars>>

NextUpdate ==
    \/ CheckForUpdateDev
    \/ CheckForUpdateFails
    \/ \E tag \in TagNames : CheckForUpdate(tag)
    \/ CheckForUpdateThen

SpecUpdate == InitUpdate /\ [][NextUpdate]_vars

----------------------------------------------------------------------------
(* highlight.ts *)

RECURSIVE replaceAll(_, _, _)
\* str.replace(/c/g, entity) for one character c
replaceAll(s, c, entity) ==
    IF s = <<>> THEN <<>>
    ELSE IF Len(s) = 1 THEN (IF s[1] = c THEN entity ELSE s)
    ELSE LET h == Len(s) \div 2
         IN replaceAll(SubSeq(s, 1, h), c, entity)
              \o replaceAll(SubSeq(s, h + 1, Len(s)), c, entity)

AmpEntity ==
    <<"&","a","m","p",";">>

LtEntity ==
    <<"&","l","t",";">>

GtEntity ==
    <<"&","g","t",";">>

QuotEntity ==
    <<"&","q","u","o","t",";">>

\* an escapeHtml without the pass over the double quotes
escapeHtml_NoQuote(s) ==
    replaceAll(replaceAll(replaceAll(s, "&", AmpEntity), "<", LtEntity),
               ">", GtEntity)

\* the four replace calls, in their order
escapeHtml(s) ==
    replaceAll(replaceAll(replaceAll(replaceAll(s, "&", AmpEntity),
                                     "<", LtEntity),
                          ">", GtEntity),
               "\"", QuotEntity)

\* text of the template literals: written by the highlighter
Markup(s) == [i \in 1..Len(s) |-> [c |-> s[i], src |-> "markup"]]

\* text taken from the argument, escaped or as it was matched
FromInput(s) == [i \in 1..Len(s) |-> [c |-> s[i], src |-> "input"]]

\* the characters of a highlighter's result
TextOf(out) == [i \in 1..Len(out) |-> out[i].c]

\* the . of a regular expression without the s flag
Dot(c) == c \notin {"\n", "\r"}

\* the first position from i on that holds no white space, Len(s) + 1 if
\* there is none: where a greedy \s* stops
SkipSpaces(s, i) ==
    LET at == { k \in i..Len(s) : ~ IsSpace(s[k]) }
    IN IF at = {} THEN Len(s) + 1
       ELSE CHOOSE k \in at : \A j \in at : k <= j

RECURSIVE CloseQuote(_, _)
\* (?:[^"\\]|\\.)*" from position i: the position of the closing quote, 0
\* if the string is not closed; a backslash takes the next character with it
CloseQuote(s, i) ==
    IF i > Len(s) THEN 0
    ELSE IF s[i] = "\"" THEN i
    ELSE IF s[i] = "\\"
      THEN (IF i + 1 <= Len(s) /\ Dot(s[i + 1]) THEN CloseQuote(s, i + 2)
            ELSE 0)
    ELSE CloseQuote(s, i + 1)

\* (.*) from position i: up to the first line terminator
TakeDots(s, i) ==
    LET at == { k \in i..Len(s) : ~ Dot(s[k]) }
    IN IF at = {} THEN SubSeq(s, i, Len(s))
       ELSE SubSeq(s, i, (CHOOSE k \in at : \A j \in at : k <= j) - 1)

SpanKey ==
    <<"<","s","p","a","n"," ","c","l","a","s","s","=","\"","h","l",
      "-","j","k","e","y","\"",">","\"">>

SpanKeyEnd ==
    <<"\"","<","/","s","p","a","n",">","<","s","p","a","n"," ","c",
      "l","a","s","s","=","\"","h","l","-","p","u","n","c","t","\"",
      ">",":","<","/","s","p","a","n",">"," ">>

SpanStr ==
    <<"<","s","p","a","n"," ","c","l","a","s","s","=","\"","h","l",
      "-","j","s","t","r","\"",">">>

SpanNum ==
    <<"<","s","p","a","n"," ","c","l","a","s","s","=","\"","h","l",
      "-","j","n","u","m","\"",">">>

SpanBool ==
    <<"<","s","p","a","n"," ","c","l","a","s","s","=","\"","h","l",
      "-","j","b","o","o","l","\"",">">>

SpanEnd ==
    <<"<","/","s","p","a","n",">">>

DetailsOpen ==
    <<"<","d","e","t","a","i","l","s"," ","c","l","a","s","s","=",
      "\"","j","v","a","l","-","l","o","n","g","\"",">","<","s","u",
      "m","m","a","r","y",">","<","s","p","a","n"," ","c","l","a",
      "s","s","=","\"","h","l","-","j","s","t","r","\"",">">>

DetailsMid ==
    <<"<","/","s","p","a","n",">","<","/","s","u","m","m","a","r",
      "y",">","<","s","p","a","n"," ","c","l","a","s","s","=","\"",
      "h","l","-","j","s","t","r","\"",">">>

DetailsEnd ==
    <<"<","/","s","p","a","n",">","<","/","d","e","t","a","i","l",
      "s",">">>

\* the character \u2026 of the preview
Ellipsis == "u2026"

\* v.length > 200: the strings shown collapsed
LongValue == 200

\* v.substring(0, 80): the length of the preview
PreviewLength == 80

hlJsonValue(raw) ==
    LET t == trim(raw)
        hasComma == t # <<>> /\ t[Len(t)] = ","
        trailing == IF hasComma THEN <<",">> ELSE <<>>
        v == IF hasComma THEN SubSeq(t, 1, Len(t) - 1) ELSE t
    IN IF v # <<>> /\ v[1] = "\"" /\ v[Len(v)] = "\""
         THEN IF Len(v) > LongValue
                THEN LET preview == SubSeq(v, 1, PreviewLength) \o <<Ellipsis, "\"">>
                     IN Markup(DetailsOpen) \o FromInput(escapeHtml(preview))
                          \o Markup(DetailsMid) \o FromInput(escapeHtml(v))
                          \o Markup(DetailsEnd) \o FromInput(trailing)
                ELSE Markup(SpanStr) \o FromInput(escapeHtml(v))
                       \o Markup(SpanEnd) \o FromInput(trailing)
       ELSE IF v # <<>> /\ (\/ IsDigit(v[1])
                            \/ v[1] = "-" /\ Len(v) >= 2 /\ IsDigit(v[2]))
         THEN Markup(SpanNum) \o FromInput(escapeHtml(v))
                \o Markup(SpanEnd) \o FromInput(trailing)
       ELSE IF v \in { <<"t","r","u","e">>, <<"f","a","l","s","e">>,
                       <<"n","u","l","l">> }
         THEN Markup(SpanBool) \o FromInput(escapeHtml(v))
                \o Markup(SpanEnd) \o FromInput(trailing)
       ELSE FromInput(escapeHtml(raw))

\* an hlJsonLine that puts the key between the quotes as it was matched
hlJsonLine_RawKey(line) ==
    LET q == SkipSpaces(line, 1)
        cq == IF q <= Len(line) /\ line[q] = "\"" THEN CloseQuote(line, q + 1)
              ELSE 0
        colon == SkipSpaces(line, cq + 1)
    IN IF cq > 0 /\ colon <= Len(line) /\ line[colon] = ":"
         THEN FromInput(SubSeq(line, 1, q - 1)) \o Markup(SpanKey)
                \o FromInput(SubSeq(line, q + 1, cq - 1))
                \o Markup(SpanKeyEnd)
                \o hlJsonValue(TakeDots(line, SkipSpaces(line, colon + 1)))
         ELSE FromInput(escapeHtml(line))

\* the two matches of hlJsonLine: indent, a quoted key, a colon and the
\* rest; else indent, a quoted string and at most a comma up to the end
hlJsonLine(line) ==
    LET q == SkipSpaces(line, 1)
        cq == IF q <= Len(line) /\ line[q] = "\"" THEN CloseQuote(line, q + 1)
              ELSE 0
        indent == SubSeq(line, 1, q - 1)
        key == SubSeq(line, q + 1, cq - 1)
        colon == SkipSpaces(line, cq + 1)
    IN IF cq > 0 /\ colon <= Len(line) /\ line[colon] = ":"
         THEN FromInput(indent) \o Markup(SpanKey)
                \o FromInput(escapeHtml(key)) \o Markup(SpanKeyEnd)
                \o hlJsonValue(TakeDots(line, SkipSpaces(line, colon + 1)))
       ELSE IF cq > 0 /\ (\/ colon = Len(line) + 1
                          \/ colon = Len(line) /\ line[colon] = ",")
         THEN FromInput(indent) \o Markup(SpanStr) \o Markup(<<"\"">>)
                \o FromInput(escapeHtml(key)) \o Markup(<<"\"">>)
                \o Markup(SpanEnd)
                \o FromInput(IF colon = Len(line) THEN <<",">> ELSE <<>>)
       ELSE FromInput(escapeHtml(line))

RECURSIVE MapJoin(_)
\* lines.map(hlJsonLine).join("\n")
MapJoin(lines) ==
    IF Len(lines) = 1 THEN hlJsonLine(lines[1])
    ELSE hlJsonLine(lines[1]) \o FromInput(<<"\n">>) \o MapJoin(Tail(lines))

highlightJson(s) == MapJoin(split(s))

\* the pieces the highlighted texts are made of
HlParts ==
    { <<"\"","<","k",">","\"">>,
      <<":">>,
      <<" ">>,
      <<",">>,
      <<"<","b",">","&">>,
      <<"1","<">>,
      <<"t","r","u","e">>,
      <<"\"">>,
      <<"\\","\"">>,
      <<"\n">>,
      <<"\r">>,
      <<"&","l","t",";">>,
      <<"a">> }

\* the number of pieces of a text
MaxParts == 3

RECURSIVE TextsOf(_)
\* the texts of at most n pieces
TextsOf(n) ==
    IF n = 0 THEN { <<>> }
    ELSE LET shorter == TextsOf(n - 1)
         IN shorter \cup { s \o p : s \in shorter, p \in HlParts }

RECURSIVE Repeat(_, _)
Repeat(s, n) ==
    IF n = 0 THEN <<>>
    ELSE IF n = 1 THEN s
    ELSE Repeat(s, n \div 2) \o Repeat(s, n - n \div 2)

\* lines with a string value of more than 200 characters, and of 200
LongTexts ==
    { <<"\"","k","\"",":"," ","\"">> \o Repeat(<<"<">>, LongValue - 1)
          \o <<"\"">>,
      <<"\"","k","\"",":"," ","\"">> \o Repeat(<<"<">>, LongValue - 2)
          \o <<"\"",",">> }

\* a response body, or a part of one, to be shown
InitHighlight ==
    /\ editorContent = DEFAULT_CONTENT
    /\ blocks = parseHttpFile(editorContent)
    /\ cursorLine = 0
    /\ found = <<"none">>
    /\ calls = [c \in CallIds |-> IdleCall]
    /\ now = 0
    /\ app = NewApp
    /\ loading = FALSE
    /\ responses = <<>>
    /\ nextId = 1
    /\ awaiting = {}
    /\ fileLoaded = TRUE
    /\ saveTimer = << [content |-> editorContent, due |-> now + SaveDelay] >>
    /\ saved = <<>>
    /\ version = <<"d","e","v">>
    /\ info = <<>>
    /\ updateInfo = <<>>
    /\ str \in TextsOf(MaxParts) \cup LongTexts
    /\ html = <<>>

escapeHtmlCall ==
    /\ html' = << [fn |-> "escapeHtml", out |-> FromInput(escapeHtml(str))] >>
    /\ UNCHANGED <<editorVars, execVars, uiVars, saveVars, updateVars, str>>

hlJsonLineCall ==
    /\ html' = << [fn |-> "hlJsonLine", out |-> hlJsonLine(str)] >>
    /\ UNCHANGED <<editorVars, execVars, uiVars, saveVars, updateVars, str>>

highlightJsonCall ==
    /\ html' = << [fn |-> "highlightJson", out |-> highlightJson(str)] >>
    /\ UNCHANGED <<editorVars, execVars, uiVars, saveVars, updateVars, str>>

NextHighlight ==
    \/ escapeHtmlCall
    \/ hlJsonLineCall
    \/ highlightJsonCall

SpecHighlight == InitHighlight /\ [][NextHighlight]_vars

----------------------------------------------------------------------------
(* Properties of the parser *)

\* the lines of the document
Lines == split(editorContent)

\* C1: every returned block has startLine <= methodLine <= endLine, the
\* blocks' inclusive ranges are pairwise disjoint and the blocks come in
\* strictly ascending startLine order.
C1_RangesOrderedDisjoint ==
    LET n == Len(Lines) IN
    /\ \A k \in 1..Len(blocks) :
          /\ blocks[k].startLine <= blocks[k].methodLine
          /\ blocks[k].methodLine <= blocks[k].endLine
    /\ \A j, k \in 1..Len(blocks) :
          j < k =>
            /\ blocks[j].startLine < blocks[k].startLine
            /\ ~ \E line \in 0..(n - 1) :
                    /\ blocks[j].startLine <= line /\ line <= blocks[j].endLine
                    /\ blocks[k].startLine <= line /\ line <= blocks[k].endLine

\* two blocks, the first opened by a separator and running past its method line
C1_Witness ==
    /\ Len(blocks) >= 2
    /\ blocks[1].startLine < blocks[1].methodLine
    /\ blocks[1].methodLine < blocks[1].endLine

\* C4: the headers of a block are exactly the lines after the method line
\* and before the first blank line (or the block end) whose first colon is
\* at an index > 0, keyed by the trimmed text before the colon, valued by
\* the trimmed text after it, the last line of a key giving its value.
C4_HeadersFromHeaderRegion ==
    LET L == Lines IN
    \A k \in 1..Len(blocks) :
        LET b == blocks[k]
            region == {i \in (b.methodLine + 1)..b.endLine :
                         \A j \in (b.methodLine + 1)..i : trim(At(L, j)) # <<>>}
            lines == {i \in region : indexOf(At(L, i), ":") > 0}
            keyOf(i) == trim(substring2(At(L, i), 0, indexOf(At(L, i), ":")))
            valueOf(i) == trim(substring(At(L, i), indexOf(At(L, i), ":") + 1))
        IN /\ DOMAIN b.headers = {keyOf(i) : i \in lines}
           /\ \A key \in DOMAIN b.headers :
                 \E i \in lines :
                    /\ keyOf(i) = key
                    /\ \A j \in lines : keyOf(j) = key => j <= i
                    /\ b.headers[key] = valueOf(i)

\* "A: 1" then "A :2 " under a method line: headers["A"] is "2"
C4_Witness ==
    \E k \in 1..Len(blocks) :
        LET m == blocks[k].methodLine IN
        /\ blocks[k].endLine >= m + 2
        /\ At(Lines, m + 1) = <<"A",":"," ","1">>
        /\ At(Lines, m + 2) = <<"A"," ",":","2"," ">>
        /\ <<"A">> \in DOMAIN blocks[k].headers
        /\ blocks[k].headers[<<"A">>] = <<"2">>

\* C5: the body of a block is empty or ends with a non-whitespace
\* character, however many blank lines follow the block.
C5_BodyNeverEndsBlank ==
    \A k \in 1..Len(blocks) :
        \/ blocks[k].body = <<>>
        \/ ~ IsSpace(blocks[k].body[Len(blocks[k].body)])

\* a block with a body whose last line ends in a space and is followed by
\* a blank line of the document
C5_Witness ==
    \E k \in 1..Len(blocks) :
        LET e == blocks[k].endLine IN
        /\ blocks[k].body # <<>>
        /\ IsSpace(At(Lines, e)[Len(At(Lines, e))])
        /\ e + 1 <= Len(Lines) - 1
        /\ trim(At(Lines, e + 1)) = <<>>

\* C6 (as claimed): a line whose trimmed content starts with # (not ###)
\* or // is never captured as a header, is never a method line and neither
\* starts nor ends a block.
C6_CommentsInert ==
    \A i \in 0..(Len(Lines) - 1) :
        LET t == trim(At(Lines, i))
            isComment == /\ ~ startsWith(t, <<"#","#","#">>)
                         /\ startsWith(t, <<"#">>) \/ startsWith(t, <<"/","/">>)
            key == trim(substring2(At(Lines, i), 0, indexOf(At(Lines, i), ":")))
        IN isComment =>
             \A k \in 1..Len(blocks) :
                /\ blocks[k].methodLine # i
                /\ i > 0 => blocks[k].startLine # i
                /\ blocks[k].endLine # i - 1
                /\ (blocks[k].methodLine < i /\ i <= blocks[k].endLine
                      /\ indexOf(At(Lines, i), ":") > 0)
                     => key \notin DOMAIN blocks[k].headers

\* the text t is a verb, a space and a remainder of URL shape, or a bare URL
MethodLineText(t) ==
    \/ \E v \in 1..Len(HTTP_METHODS) :
          /\ startsWith(t, HTTP_METHODS[v] \o <<" ">>)
          /\ LET rest == trim(substring(t, Len(HTTP_METHODS[v]) + 1)) IN
             \/ startsWith(rest, HttpScheme)
             \/ startsWith(rest, HttpsScheme)
             \/ startsWith(rest, <<"/">>)
             \/ startsWith(rest, <<"{","{">>)
             \/ WordDotWord(rest)
    \/ startsWith(t, HttpScheme)
    \/ startsWith(t, HttpsScheme)

\* the text t starts with a verb and a space
VerbPrefixed(t) ==
    \E v \in 1..Len(HTTP_METHODS) : startsWith(t, HTTP_METHODS[v] \o <<" ">>)

\* how parseHttpFile takes a line of trimmed content t: the separator test
\* comes before the method-line test
LineKind(t) ==
    IF startsWith(t, <<"#","#","#">>) THEN "separator"
    ELSE IF MethodLineText(t) THEN "method"
    ELSE IF t = <<>> THEN "blank"
    ELSE "other"

RECURSIVE KindsOf(_)
KindsOf(lines) ==
    IF lines = <<>> THEN <<>>
    ELSE <<LineKind(trim(Head(lines)))>> \o KindsOf(Tail(lines))

\* the kind of every line of the document
LineKinds == KindsOf(Lines)

\* the blocks whose method line is line i
BlocksOfMethodLine(i) == {k \in 1..Len(blocks) : blocks[k].methodLine = i}

C14_MethodLineClosesOpenBlock ==
    LET K == LineKinds IN
    \A m \in 0..(Len(K) - 1) : \A i \in (m + 1)..(Len(K) - 1) :
        (/\ At(K, m) = "method"
         /\ At(K, i) = "method"
         /\ \A s \in (m + 1)..(i - 1) : At(K, s) = "other")
        => \E k \in 1..(Len(blocks) - 1) :
              /\ blocks[k].methodLine = m
              /\ blocks[k].endLine = i - 1
              /\ blocks[k + 1].startLine = i
              /\ blocks[k + 1].methodLine = i

\* a block with a header line closed by the method line after it
C14_Witness ==
    \E k \in 1..(Len(blocks) - 1) :
        /\ blocks[k].endLine > blocks[k].methodLine
        /\ DOMAIN blocks[k].headers # {}
        /\ blocks[k + 1].startLine = blocks[k].endLine + 1
        /\ blocks[k + 1].methodLine = blocks[k + 1].startLine

\* C15: a document without a method line parses to the empty sequence.
C15_NoMethodLineNoBlock ==
    LET K == LineKinds IN
    (\A i \in 0..(Len(K) - 1) : At(K, i) # "method") => blocks = <<>>

\* a document of a separator, a verb without URL shape and a header, and
\* no block
C15_Witness ==
    LET L == Lines IN
    /\ blocks = <<>>
    /\ \E i \in 0..(Len(L) - 1) :
          At(L, i) = <<"#","#","#"," ","G","E","T"," ","/","a">>
    /\ \E i \in 0..(Len(L) - 1) : At(L, i) = <<"G","E","T"," ","x">>
    /\ \E i \in 0..(Len(L) - 1) : At(L, i) = <<"A",":"," ","1">>

\* C16: the method of a block is one of the seven verbs; when the trimmed
\* method line begins with a verb and a space the method is that verb and
\* the url the trimmed remainder; when it is a bare http:// or https:// URL
\* the method is GET and the url the whole trimmed line.
C16_MethodAndUrl ==
    LET L == Lines IN
    \A k \in 1..Len(blocks) :
        LET t == trim(At(L, blocks[k].methodLine)) IN
        /\ blocks[k].method # <<>>
        /\ \E v \in 1..Len(HTTP_METHODS) : blocks[k].method = HTTP_METHODS[v]
        /\ \A v \in 1..Len(HTTP_METHODS) :
              startsWith(t, HTTP_METHODS[v] \o <<" ">>) =>
                 /\ blocks[k].method = HTTP_METHODS[v]
                 /\ blocks[k].url = trim(substring(t, Len(HTTP_METHODS[v]) + 1))
        /\ (startsWith(t, HttpScheme) \/ startsWith(t, HttpsScheme)) =>
              /\ blocks[k].method = <<"G","E","T">>
              /\ blocks[k].url = t

\* an indented PUT with two spaces before its URL, and a bare URL
C16_Witness ==
    /\ \E k \in 1..Len(blocks) :
          /\ blocks[k].method = <<"P","U","T">>
          /\ blocks[k].url = <<"b",".","c">>
    /\ \E k \in 1..Len(blocks) :
          /\ blocks[k].method = <<"G","E","T">>
          /\ blocks[k].url = <<"h","t","t","p",":","/","/","a">>

\* C17 (as claimed): a non-separator line is the method line of a block
\* exactly when the line itself starts with a verb and a space with a
\* remainder of URL shape, or is a bare URL; a verb-prefixed line without
\* URL shape opens and closes no block.
C17_MethodLineIffShapeUntrimmed ==
    LET L == Lines
        K == LineKinds
    IN \A i \in 0..(Len(L) - 1) :
        At(K, i) # "separator" =>
            LET isMethodLine == MethodLineText(At(L, i)) IN
            /\ BlocksOfMethodLine(i) # {} <=> isMethodLine
            /\ (VerbPrefixed(At(L, i)) /\ ~ isMethodLine)
                => \A k \in 1..Len(blocks) :
                      /\ blocks[k].methodLine # i
                      /\ i > 0 => blocks[k].startLine # i
                      /\ blocks[k].endLine # i - 1

\* C17 (amended): a non-separator line is the method line of a block
\* exactly when its trimmed content starts with a verb and a space with a
\* remainder of URL shape, or is a bare URL; a verb-prefixed line without
\* URL shape opens and closes no block.
C17_MethodLineIffShape ==
    LET L == Lines
        K == LineKinds
    IN \A i \in 0..(Len(L) - 1) :
        At(K, i) # "separator" =>
            LET isMethodLine == At(K, i) = "method" IN
            /\ Cardinality(BlocksOfMethodLine(i)) = 1 <=> isMethodLine
            /\ (VerbPrefixed(trim(At(L, i))) /\ ~ isMethodLine)
                => \A k \in 1..Len(blocks) :
                      /\ blocks[k].methodLine # i
                      /\ i > 0 => blocks[k].startLine # i
                      /\ blocks[k].endLine # i - 1

\* a verb without URL shape sits in the header region of a block and a
\* bare URL opens the next block
C17_Witness ==
    LET L == Lines IN
    \E k \in 1..(Len(blocks) - 1) :
        /\ blocks[k].endLine = blocks[k].methodLine + 1
        /\ At(L, blocks[k].endLine) = <<"G","E","T"," ","x">>
        /\ At(L, blocks[k + 1].methodLine) = <<"h","t","t","p",":","/","/","a">>

----------------------------------------------------------------------------
(* Properties of the lookup *)

\* block lists whose ranges overlap, as no parse returns them
ProbeBlocks ==
    LET ranges == {r \in [startLine : 0..1, endLine : 0..1] :
                      r.startLine <= r.endLine}
    IN {<<a, b>> : a \in ranges, b \in ranges}

\* C7: findRequestAtLine returns the first block in sequence order whose
\* range holds the line and null when none does; over the blocks of a
\* parse every line of a range, its separator line included, resolves to
\* exactly the one block of that range, and a line past every range to null.
C7_FindFirstCovering ==
    /\ \A line \in 0..(Len(Lines) + 1) :
          LET covering == {k \in 1..Len(blocks) :
                              /\ blocks[k].startLine <= line
                              /\ line <= blocks[k].endLine}
              r == findRequestAtLine(blocks, line)
          IN /\ covering = {} => r = <<>>
             /\ covering # {} =>
                   /\ Cardinality(covering) = 1
                   /\ \A k \in covering : r = <<blocks[k]>>
    /\ found[1] = "ran" =>
          \/ /\ found[2] = <<>>
             /\ \A k \in 1..Len(blocks) :
                   cursorLine < blocks[k].startLine \/ cursorLine > blocks[k].endLine
          \/ /\ found[2] # <<>>
             /\ \E k \in 1..Len(blocks) : found[2] = <<blocks[k]>>
             /\ found[2][1].startLine <= cursorLine
             /\ cursorLine <= found[2][1].endLine
    /\ \A bs \in ProbeBlocks : \A line \in 0..2 :
          LET covering == {k \in 1..2 : bs[k].startLine <= line /\ line <= bs[k].endLine}
              r == findRequestAtLine(bs, line)
          IN /\ covering = {} => r = <<>>
             /\ covering # {} => \E k \in covering :
                   /\ r = <<bs[k]>>
                   /\ \A j \in covering : k <= j

\* Ctrl+Enter on the separator line of the second block ran that block
C7_Witness ==
    /\ found[1] = "ran"
    /\ Len(blocks) >= 2
    /\ found[2] = <<blocks[2]>>
    /\ cursorLine = blocks[2].startLine
    /\ cursorLine < blocks[2].methodLine

----------------------------------------------------------------------------
(* Properties of the executor *)

\* C2 (as claimed): when a block is run, every header parsed from the block
\* is present, with its value, on the request handed to the transport.
C2_BlockHeadersSent ==
    \A c \in CallIds :
        (calls[c].block # <<>> /\ calls[c].sent # <<>>) =>
            LET block == calls[c].block[1]
                req == calls[c].sent[1]
            IN \A key \in DOMAIN block.headers :
                  /\ key \in DOMAIN req.Header
                  /\ req.Header[key] = block.headers[key]

\* C3: a request that reaches the transport carries Content-Type:
\* application/json exactly when the body argument is non-empty, whatever
\* the body holds, and carries a payload, the body, exactly when it is
\* non-empty.
C3_ContentTypeIffBody ==
    \A c \in CallIds :
        calls[c].sent # <<>> =>
            LET req == calls[c].sent[1] IN
            /\ calls[c].body # <<>> =>
                  /\ ContentType \in DOMAIN req.Header
                  /\ req.Header[ContentType] = ApplicationJson
                  /\ req.Body = <<calls[c].body>>
            /\ calls[c].body = <<>> =>
                  /\ ContentType \notin DOMAIN req.Header
                  /\ req.Body = <<>>

\* the transport holds a request whose body is no JSON, sent as JSON
C3_Witness ==
    \E c \in CallIds :
        /\ calls[c].sent # <<>>
        /\ calls[c].body = <<":","x">>
        /\ calls[c].sent[1].Header[ContentType] = ApplicationJson

\* C8: when the transport delivers a response, whatever its status code,
\* the result has that status, the response's header names each with a
\* value of the response, the body read from the response, and no error.
C8_ResponseIsResult ==
    \A c \in CallIds :
        (calls[c].pc = "done" /\ calls[c].resp # <<>>) =>
            LET resp == calls[c].resp[1]
                r == calls[c].result[1]
            IN /\ r.Status = resp.StatusCode
               /\ r.Error = ""
               /\ DOMAIN r.Headers = DOMAIN resp.Header
               /\ \A key \in DOMAIN resp.Header :
                     \E k \in 1..Len(resp.Header[key]) :
                        r.Headers[key] = resp.Header[key][k]
               /\ \E n \in 0..Len(resp.Body) : r.Body = SubSeq(resp.Body, 1, n)
               /\ ~ calls[c].readErr => r.Body = resp.Body

\* a 500 response with a header and a body was returned as a result
C8_Witness ==
    \E c \in CallIds :
        /\ calls[c].pc = "done"
        /\ calls[c].resp # <<>>
        /\ calls[c].resp[1].StatusCode = 500
        /\ calls[c].result[1].Status = 500
        /\ calls[c].result[1].Body = <<"n","o">>
        /\ DOMAIN calls[c].result[1].Headers # {}

\* C9 (as claimed): the result's header of a name holds every value the
\* response has for that name, joined into one string.
C9_AllValuesKept ==
    \A c \in CallIds :
        (calls[c].pc = "done" /\ calls[c].resp # <<>>) =>
            LET resp == calls[c].resp[1]
                r == calls[c].result[1]
            IN \A key \in DOMAIN resp.Header :
                  /\ key \in DOMAIN r.Headers
                  /\ \A k \in 1..Len(resp.Header[key]) :
                        LET v == resp.Header[key][k]
                            joined == r.Headers[key]
                        IN \E i \in 1..(Len(joined) + 1) :
                              /\ i + Len(v) - 1 <= Len(joined)
                              /\ SubSeq(joined, i, i + Len(v) - 1) = v

\* C10: when the transport call fails, the result has a non-empty error,
\* status zero, no headers, an empty body and as duration the time from
\* the start of Execute to the failure, which is not negative.
C10_TransportFailureResult ==
    \A c \in CallIds :
        (calls[c].pc = "done" /\ calls[c].outcome = "transport") =>
            LET r == calls[c].result[1] IN
            /\ r.Error # ""
            /\ r.Status = 0
            /\ DOMAIN r.Headers = {}
            /\ r.Body = <<>>
            /\ r.Duration = calls[c].endAt - calls[c].start
            /\ r.Duration >= 0

\* the transport failed some time after Execute started
C10_Witness ==
    \E c \in CallIds :
        /\ calls[c].pc = "done"
        /\ calls[c].outcome = "transport"
        /\ calls[c].sent # <<>>
        /\ calls[c].result[1].Duration > 0

\* C11: when http.NewRequest fails on a malformed method or URL, the call
\* never hands a request to the transport and returns a result with a
\* non-empty error, duration exactly zero and status zero.
C11_ConstructFailureResult ==
    \A c \in CallIds :
        LET m == IF calls[c].method = <<>> THEN <<"G","E","T">>
                 ELSE calls[c].method IN
        (calls[c].pc # "idle" /\ (~ validMethod(m) \/ urlParseFails(calls[c].url)))
        => /\ calls[c].pc \in {"new", "done"}
           /\ calls[c].sent = <<>>
           /\ calls[c].resp = <<>>
           /\ calls[c].pc = "done" =>
                 /\ calls[c].outcome = "construct"
                 /\ calls[c].result[1].Error # ""
                 /\ calls[c].result[1].Duration = 0
                 /\ calls[c].result[1].Status = 0

\* a construction failure returned some time after Execute started
C11_Witness ==
    \E c \in CallIds :
        /\ calls[c].pc = "done"
        /\ calls[c].outcome = "construct"
        /\ calls[c].endAt > calls[c].start
        /\ calls[c].result[1].Error # ""

\* C12: when reading the response body fails after status and headers
\* were received, the returned result has its error set.
C12_ReadFailureIsError ==
    \A c \in CallIds :
        (calls[c].pc = "done" /\ calls[c].readErr) =>
            calls[c].result[1].Error # ""

\* C18 (as claimed): every returned result carries as duration the time
\* from the start of the call to its completion or failure.
C18_DurationAlwaysElapsed ==
    \A c \in CallIds :
        calls[c].pc = "done" =>
            calls[c].result[1].Duration = calls[c].endAt - calls[c].start

\* C18 (amended): every result returned after the request was handed to
\* the transport, with or without error, carries as duration the time from
\* the start of the call to its completion or failure; the result of a
\* construction failure carries duration zero.
C18_DurationElapsedOnceSent ==
    \A c \in CallIds :
        calls[c].pc = "done" =>
            /\ calls[c].sent # <<>> =>
                  /\ calls[c].result[1].Duration = calls[c].endAt - calls[c].start
                  /\ calls[c].result[1].Duration >= 0
            /\ calls[c].sent = <<>> => calls[c].result[1].Duration = 0

\* a 500 response returned some time after Execute started
C18_Witness ==
    \E c \in CallIds :
        /\ calls[c].pc = "done"
        /\ calls[c].outcome = "response"
        /\ calls[c].result[1].Status = 500
        /\ calls[c].endAt > calls[c].start

\* C19: a call hands at most one request to the transport, the request
\* handed over is never handed over again, and a transport failure ends the
\* call in that same step with the failure as its result.
C19_NoRetry ==
    [][\A c \in CallIds :
          /\ Len(calls'[c].sent) <= 1
          /\ calls[c].sent # <<>> => calls'[c].sent = calls[c].sent
          /\ (calls[c].pc = "do" /\ calls'[c] # calls[c]) =>
                \/ calls'[c].pc = "read" /\ calls'[c].resp # <<>>
                \/ /\ calls'[c].pc = "done"
                   /\ calls'[c].outcome = "transport"
                   /\ calls'[c].result[1].Error # ""
          /\ calls[c].pc = "done" => calls'[c] = calls[c]]_vars

\* a transport failure returned after the one request was handed over
C19_Witness ==
    \E c \in CallIds :
        /\ calls[c].pc = "done"
        /\ calls[c].outcome = "transport"
        /\ Len(calls[c].sent) = 1
        /\ calls[c].result[1].Error = "context deadline exceeded"

\* the request a call hands over is built from its own arguments, and its
\* result from the reply to its own request and its own start and end
OwnResult(k) ==
    /\ k.sent # <<>> =>
          /\ k.sent[1].Method = (IF k.method = <<>> THEN <<"G","E","T">>
                                 ELSE k.method)
          /\ k.sent[1].URL = k.url
          /\ k.sent[1].Body = (IF k.body = <<>> THEN <<>> ELSE <<k.body>>)
    /\ k.pc = "done" =>
          /\ k.outcome = "construct" => k.sent = <<>> /\ k.result[1].Error # ""
          /\ k.outcome = "transport" =>
                /\ k.result[1].Error # ""
                /\ k.result[1].Duration = k.endAt - k.start
          /\ k.outcome = "response" =>
                /\ k.result[1].Error = ""
                /\ k.result[1].Status = k.resp[1].StatusCode
                /\ DOMAIN k.result[1].Headers = DOMAIN k.resp[1].Header
                /\ \E n \in 0..Len(k.resp[1].Body) :
                      k.result[1].Body = SubSeq(k.resp[1].Body, 1, n)
                /\ k.result[1].Duration = k.endAt - k.start

\* C20: whatever the interleaving of the calls on one App, no step of
\* Execute writes a field of App, a step of one call leaves the record of
\* every other call as it was, a returned result never changes, and each
\* call's request and result come from its own arguments and the reply to
\* its own request.
C20_CallsIndependent ==
    [][/\ app' = app
       /\ app.client.Timeout = ClientTimeout
       /\ \A c \in ConcIds : \A d \in ConcIds \ {c} :
             calls'[c] # calls[c] => calls'[d] = calls[d]
       /\ \A c \in ConcIds :
             /\ calls[c].pc = "done" => calls'[c] = calls[c]
             /\ OwnResult(calls'[c])]_vars

\* two calls that overlapped in time returned different results, a
\* transport failure and a response
C20_Witness ==
    /\ calls[1].pc = "done"
    /\ calls[2].pc = "done"
    /\ calls[1].method # calls[2].method
    /\ calls[1].outcome = "transport"
    /\ calls[2].outcome = "response"
    /\ calls[1].start < calls[2].endAt
    /\ calls[2].start < calls[1].endAt

JoinedAfterFirstBlank(L, b) ==
    LET blank == {i \in (b.methodLine + 1)..b.endLine : trim(At(L, i)) = <<>>} IN
    IF blank = {} THEN <<>>
    ELSE LET first == CHOOSE i \in blank : \A j \in blank : i <= j IN
         join(SubSeq(L, first + 2, b.endLine + 1))

\* some blank line of block b after its method line has a non-blank line
\* of the block after it
BlankThenText(L, b) ==
    \E i \in (b.methodLine + 1)..b.endLine :
        /\ trim(At(L, i)) = <<>>
        /\ \E j \in (i + 1)..b.endLine : trim(At(L, j)) # <<>>

\* C22 (as claimed): the body of a block is the newline-join of the lines
\* from the line after the first blank line that follows the method line
\* through endLine, and it is empty exactly when no blank line after the
\* method line is followed by a non-blank line of the block.
C22_BodyIsJoin ==
    LET L == Lines IN
    \A k \in 1..Len(blocks) :
        /\ blocks[k].body = JoinedAfterFirstBlank(L, blocks[k])
        /\ blocks[k].body = <<>> <=> ~ BlankThenText(L, blocks[k])

\* C22 (amended): the body of a block is the newline-join of the lines
\* from the line after the first blank line that follows the method line
\* through endLine, with the whitespace at its end removed; blank lines
\* inside it, also directly after the boundary line, are kept; it is empty
\* exactly when no blank line after the method line is followed by a
\* non-blank line of the block.
C22_BodyIsTrimmedJoin ==
    LET L == Lines IN
    \A k \in 1..Len(blocks) :
        /\ blocks[k].body = trimEnd(JoinedAfterFirstBlank(L, blocks[k]))
        /\ blocks[k].body = <<>> <=> ~ BlankThenText(L, blocks[k])

\* a body that starts with a kept blank line and whose last line lost the
\* space at its end
C22_Witness ==
    \E k \in 1..Len(blocks) :
        /\ blocks[k].body = <<"\n","x">>
        /\ blocks[k].endLine = blocks[k].methodLine + 3

\* C23: there are as many blocks as method lines; every method line,
\* wherever it stands, is the methodLine of exactly one block and no two
\* blocks share a methodLine; a region from a separator to the next
\* separator (or the end) without a method line holds no line of any block.
C23_OneBlockPerMethodLine ==
    LET K == LineKinds
        n == Len(K)
        meths == {i \in 0..(n - 1) : At(K, i) = "method"}
        seps == {i \in 0..(n - 1) : At(K, i) = "separator"}
    IN /\ Len(blocks) = Cardinality(meths)
       /\ \A i \in meths : Cardinality(BlocksOfMethodLine(i)) = 1
       /\ \A j, k \in 1..Len(blocks) :
             j # k => blocks[j].methodLine # blocks[k].methodLine
       /\ \A i \in seps :
             LET later == {s \in seps : s > i}
                 stop == IF later = {} THEN n
                         ELSE CHOOSE s \in later : \A t \in later : s <= t
             IN (\A j \in i..(stop - 1) : j \notin meths)
                => \A k \in 1..Len(blocks) :
                      blocks[k].endLine < i \/ blocks[k].startLine >= stop

\* a method line after a blank line gets its own block, and a region of a
\* separator and text between two blocks gets none
C23_Witness ==
    LET K == LineKinds IN
    /\ Len(K) = 4
    /\ Len(blocks) = 2
    /\ \/ /\ At(K, 1) = "blank"
          /\ blocks[2].methodLine = 2
       \/ /\ At(K, 1) = "separator"
          /\ At(K, 2) = "separator"
          /\ blocks[2].startLine = 2

\* C24: the endLine of a block is the last non-blank line from its method
\* line up to the next separator, the next method line or the end of the
\* document; findRequestAtLine finds no block on the blank lines between
\* that line and the place the block stops.
C24_EndLineIsLastText ==
    LET K == LineKinds
        n == Len(K)
    IN \A k \in 1..Len(blocks) :
        LET m == blocks[k].methodLine
            stops == {i \in (m + 1)..(n - 1) : At(K, i) \in {"separator", "method"}}
            stop == IF stops = {} THEN n
                    ELSE CHOOSE i \in stops : \A j \in stops : i <= j
            text == {m} \cup {i \in (m + 1)..(stop - 1) : At(K, i) # "blank"}
            last == CHOOSE i \in text : \A j \in text : j <= i
        IN /\ blocks[k].endLine = last
           /\ \A line \in (last + 1)..(stop - 1) :
                 findRequestAtLine(blocks, line) = <<>>

\* a block with a header, then two blank lines that no block holds, then
\* the end of the document
C24_Witness ==
    LET K == LineKinds IN
    /\ Len(K) = 4
    /\ Len(blocks) = 1
    /\ blocks[1].endLine = 1
    /\ blocks[1].methodLine = 0
    /\ At(K, 2) = "blank"
    /\ findRequestAtLine(blocks, 2) = <<>>
    /\ findRequestAtLine(blocks, 3) = <<>>

\* C25: every index at which parseHttpFile reads the line array lies within
\* [0, number of lines - 1], also when the first line is a separator and
\* when the document is empty, and the parse returns a sequence of blocks.
C25_ReadsInRange ==
    LET n == Len(Lines) IN
    /\ parseReads(editorContent) \subseteq 0..(n - 1)
    /\ Len(blocks) <= n

\* the first line is a separator, so flush(-1) was called, and a block with
\* blank lines after it was flushed at the end of the document
C25_Witness ==
    LET K == LineKinds IN
    /\ At(K, 0) = "separator"
    /\ Len(blocks) = 1
    /\ blocks[1].endLine < Len(K) - 1
    /\ blocks[1].endLine \in parseReads(editorContent)

\* C26: loading is true whenever a runRequest has called Execute and has
\* not yet got its result, and false once no request is in flight.
C26_LoadingIffInFlight == loading <=> awaiting # {}

\* C27: the ids of the log are pairwise distinct and strictly decrease
\* from head to tail; the log changes only by a Clear or by one entry put
\* at its head, under the next id, for a runRequest whose Execute returned,
\* with the method and url of the block that runRequest was started with;
\* an id once given is never given again, also after a Clear.
C27_LogIdsDecrease ==
    [][/\ \A i, j \in 1..Len(responses') :
             i < j => responses'[i].id > responses'[j].id
       /\ \A i \in 1..Len(responses') : responses'[i].id < nextId'
       /\ nextId' >= nextId
       /\ responses' # responses =>
             \/ responses' = <<>> /\ nextId' = nextId
             \/ /\ Tail(responses') = responses
                /\ responses'[1].id = nextId
                /\ nextId' = nextId + 1
                /\ \E c \in awaiting \ awaiting' :
                      /\ awaiting \ awaiting' = {c}
                      /\ calls[c].pc = "done"
                      /\ responses'[1].method = calls[c].block[1].method
                      /\ responses'[1].url = calls[c].block[1].url]_vars

\* the log was cleared after the first entry, and the second request to
\* complete got id 2 although it is alone in the log
C27_Witness ==
    /\ Len(responses) = 1
    /\ responses[1].id = 2
    /\ nextId = 3
    /\ awaiting = {}

----------------------------------------------------------------------------
(* Properties of saving *)

\* C28: no SaveFile call is made while the file is not loaded; once it is
\* loaded every change of the content sets the one timer anew, for the new
\* content and 500 ms ahead, and the timer is set by nothing else; a
\* SaveFile call is made by the timer alone, at the moment it is due, with
\* the content the editor has at that moment; and a timer that is set
\* leads to a SaveFile call with the content of the editor.
C28_AutoSave ==
    /\ [](~ fileLoaded => saved = <<>>)
    /\ [][/\ ((fileLoaded' /\ editorContent' # editorContent) =>
               saveTimer' = << [content |-> editorContent',
                                due |-> now' + SaveDelay] >>)
           /\ ((saveTimer' # saveTimer /\ saveTimer' # <<>>) =>
               editorContent' # editorContent)
           /\ saved' # saved =>
               /\ fileLoaded
               /\ saveTimer # <<>>
               /\ saveTimer' = <<>>
               /\ editorContent' = editorContent
               /\ now' = saveTimer[1].due
               /\ saved' = Append(saved, [content |-> editorContent,
                                          at |-> now'])]_vars
    /\ (saveTimer # <<>>) ~>
          (/\ saveTimer = <<>>
           /\ saved # <<>>
           /\ saved[Len(saved)].content = editorContent)

\* a line was typed 250 ms after the load and before the load's timer
\* fired: the one SaveFile call came 500 ms after that change, with the
\* content that has the line
C28_Witness ==
    /\ fileLoaded
    /\ saveTimer = <<>>
    /\ Len(saved) = 1
    /\ saved[1].at = SaveStep + SaveDelay
    /\ saved[1].content = editorContent
    /\ NumLines(editorContent) = 2

----------------------------------------------------------------------------
(* Properties of the update check *)

\* (maj, min, pat) of l is higher than that of c, as numbers
HigherVersion(l, c) ==
    \/ l[1] > c[1]
    \/ l[1] = c[1] /\ l[2] > c[2]
    \/ l[1] = c[1] /\ l[2] = c[2] /\ l[3] > c[3]

\* C29: the UpdateAvailable that CheckForUpdate returns for a decoded
\* release is true exactly when the tag and the version both have three
\* components that parse as integers and (major, minor, patch) of the tag
\* is higher, as numbers, than that of the version.
C29_IsNewerIsSemverOrder ==
    (info # <<>> /\ version # <<"d","e","v">> /\ info[1].ReleaseURL # <<>>) =>
        LET l == parse(info[1].LatestVersion)
            c == parse(version)
        IN info[1].UpdateAvailable <=>
              (l # <<>> /\ c # <<>> /\ HigherVersion(l[1], c[1]))

----------------------------------------------------------------------------
(* Properties of the highlighter *)

\* one of the four entities starts at position i of s
EntityAt(s, i) ==
    \E e \in {AmpEntity, LtEntity, GtEntity, QuotEntity} :
        /\ i + Len(e) - 1 <= Len(s)
        /\ SubSeq(s, i, i + Len(e) - 1) = e

\* C30: the result of escapeHtml holds no <, > or ", each & of it starts
\* one of &amp; &lt; &gt; &quot;, and a text without & < > " is returned
\* as it is; in the results of hlJsonLine and highlightJson every < and >
\* is one the highlighter wrote, none is taken from the argument.
C30_EscapedOutput ==
    html # <<>> =>
        LET out == html[1].out
            text == TextOf(out)
        IN /\ html[1].fn = "escapeHtml" =>
                /\ \A i \in 1..Len(text) :
                      /\ text[i] \notin {"<", ">", "\""}
                      /\ text[i] = "&" => EntityAt(text, i)
                /\ (\A i \in 1..Len(str) :
                        str[i] \notin {"&", "<", ">", "\""}) => text = str
           /\ \A i \in 1..Len(out) :
                 out[i].src = "input" => out[i].c \notin {"<", ">"}

\* a line with a key and a string value, both holding < and >, was
\* highlighted: the result has the spans, and the entities in them
C30_Witness ==
    /\ html # <<>>
    /\ html[1].fn = "hlJsonLine"
    /\ str = <<"\"","<","k",">","\"",":","\"","<","k",">","\"">>
    /\ \E i \in 1..Len(html[1].out) :
          html[1].out[i].src = "markup" /\ html[1].out[i].c = "<"
    /\ \E i \in 1..Len(html[1].out) :
          /\ html[1].out[i].src = "input"
          /\ EntityAt(TextOf(html[1].out), i)
          /\ html[1].out[i + 1].c = "l"

====
